---------------------------- MODULE Spec2Model ----------------------------
(***************************************************************************)
(* Model of drivers/power/supply/lego_ev3_battery.c: the LEGO MINDSTORMS   *)
(* EV3 battery driver.  The state is the driver's struct lego_ev3_battery, *)
(* the position of probe / devres teardown, and a record of the most       *)
(* recent call and its result.  The iio channels, the gpio line and the    *)
(* devres allocator are the environment: their answers are inputs.         *)
(***************************************************************************)
EXTENDS Integers, Sequences, FiniteSets

VARIABLES
    pc,         \* position of the platform device: unbound, a probe step, bound, unwind
    nProbes,    \* number of probe calls so far
    probe_ret,  \* return value of the most recent probe call, 0 while it runs
    devres,     \* the device's managed resources, in the order they were added
    batt,       \* struct lego_ev3_battery (technology, v_max, v_min, v_now, c_now)
    psy,        \* TRUE while the power supply is registered (batt->psy)
    iio_cb,     \* the callback buffer: "none", "held" (got, not started), "running"
    strap,      \* what gpiod_get_value returned in this probe, -1 before it is read
    setOk,      \* number of set_property calls that returned 0 on this batt
    sample,     \* the raw words of the last sample given to the callback, <<>> if none
    last,       \* the most recent call: its arguments, its result, batt before it
    conc        \* a get and a callback in progress on their own contexts (SpecConc)

vars == <<pc, nProbes, probe_ret, devres, batt, psy, iio_cb, strap, setOk, sample, last,
          conc>>

----------------------------------------------------------------------------
(* Bounds of the model *)

MaxProbes == 2

\* callbacks delivered in SpecConc
MaxSamples == 2

----------------------------------------------------------------------------
(* Constants of the kernel headers the driver uses *)

EAGAIN == 11
ENOMEM == 12
EBUSY == 16
ENODEV == 19
EINVAL == 22
ENODATA == 61
EIO == 5
EPROBE_DEFER == 517

IIO_VAL_INT == 1

POWER_SUPPLY_TECHNOLOGY_UNKNOWN == 0
POWER_SUPPLY_TECHNOLOGY_NiMH == 1
POWER_SUPPLY_TECHNOLOGY_LION == 2
POWER_SUPPLY_TECHNOLOGY_LiMn == 6

POWER_SUPPLY_SCOPE_SYSTEM == 1

POWER_SUPPLY_PROP_TECHNOLOGY == "TECHNOLOGY"
POWER_SUPPLY_PROP_VOLTAGE_NOW == "VOLTAGE_NOW"
POWER_SUPPLY_PROP_VOLTAGE_MAX_DESIGN == "VOLTAGE_MAX_DESIGN"
POWER_SUPPLY_PROP_VOLTAGE_MIN_DESIGN == "VOLTAGE_MIN_DESIGN"
POWER_SUPPLY_PROP_CURRENT_NOW == "CURRENT_NOW"
POWER_SUPPLY_PROP_SCOPE == "SCOPE"
POWER_SUPPLY_PROP_STATUS == "STATUS"

\* lego_ev3_battery_props[]
lego_ev3_battery_props ==
    { POWER_SUPPLY_PROP_TECHNOLOGY, POWER_SUPPLY_PROP_VOLTAGE_NOW,
      POWER_SUPPLY_PROP_VOLTAGE_MAX_DESIGN, POWER_SUPPLY_PROP_VOLTAGE_MIN_DESIGN,
      POWER_SUPPLY_PROP_CURRENT_NOW, POWER_SUPPLY_PROP_SCOPE }

----------------------------------------------------------------------------
(* Inputs *)

\* property ids a caller may pass: the six of the driver and one it lacks
Props == lego_ev3_battery_props \cup { POWER_SUPPLY_PROP_STATUS }

\* the properties whose get reads an iio channel
LiveProps == { POWER_SUPPLY_PROP_VOLTAGE_NOW, POWER_SUPPLY_PROP_CURRENT_NOW }

\* values a caller may write to a property: technologies of the enum
SetVals == { POWER_SUPPLY_TECHNOLOGY_UNKNOWN, POWER_SUPPLY_TECHNOLOGY_NiMH,
             POWER_SUPPLY_TECHNOLOGY_LION, POWER_SUPPLY_TECHNOLOGY_LiMn }

\* processed readings (mV) a live channel read may deliver
LiveVals == { 0, 16, 4095 }

\* failures a live channel read may report
ReadErrs == { -EBUSY, -ENODEV, -EAGAIN, -EIO, -EINVAL }

\* what iio_read_channel_processed may answer: a return code and, on success,
\* the value written through the pointer
ReadOutcomes ==
    { [ret |-> IIO_VAL_INT, val |-> v] : v \in LiveVals }
    \cup { [ret |-> 0, val |-> 15] }
    \cup { [ret |-> e, val |-> 0] : e \in ReadErrs }

\* stands for a read the call does not make
NoRead == [ret |-> 0, val |-> 0]

\* 16-bit words of the callback's buffer
SampleWords == { 0, 15, 4095, 61455 }

\* failures of a dependency at probe
ProbeErrs == { -ENODEV, -EPROBE_DEFER }

----------------------------------------------------------------------------
(* C integer arithmetic.  Every product below stays under 2^31 for 16-bit *)
(* inputs (65535 * 20000 < 2^31), so int never wraps in the model.        *)

\* a / b of C: the quotient truncated toward zero
CDiv(a, b) == IF a >= 0 THEN a \div b ELSE -((-a) \div b)

\* x & 0xFFF for a u16
Mask12(x) == x % 4096

\* x >> 12 for a non-negative int
Shr12(x) == x \div 4096

----------------------------------------------------------------------------
(* struct lego_ev3_battery *)

\* variant: an allocation that does not clear the readings
ZeroBatt_Uncleared ==
    [technology |-> 0, v_max |-> 0, v_min |-> 0, v_now |-> 4095, c_now |-> 15]

\* devm_kzalloc: every field zero
ZeroBatt == [technology |-> 0, v_max |-> 0, v_min |-> 0, v_now |-> 0, c_now |-> 0]

----------------------------------------------------------------------------
(* lego_ev3_battery_get_property.  r1 and r2 are the answers of the first *)
(* and the second iio_read_channel_processed the call makes, if it makes  *)
(* them.  The result is the return code, val->intval (0 stands for "not   *)
(* reported" when the call fails) and the reads the call made, in order.  *)

GetResult(ret, val, reads) == [ret |-> ret, val |-> val, reads |-> reads]

\* variant: the code of a failed read returned as it is
ReadFailure_PassThrough(ret) == ret

\* how one failed read ends the call: -ENODEV and -EAGAIN as they are,
\* any other negative code as -ENODATA
ReadFailure(ret) == IF ret = -ENODEV \/ ret = -EAGAIN THEN ret ELSE -ENODATA

\* the value a read leaves in its variable: the stored one on -EBUSY,
\* the one read otherwise
ReadValue(r, stored) == IF r.ret = -EBUSY THEN stored ELSE r.val

\* variant: -EBUSY ends the call like any other negative code
ReadFails_BusyToo(r) == r.ret < 0

\* a read that ends the call with a failure
ReadFails(r) == r.ret # -EBUSY /\ r.ret < 0

\* variant: the transistor's 200000 uV not added
GetVoltageNow_NoOffset(b, r1, r2) ==
    IF ReadFails(r1) THEN GetResult(ReadFailure(r1.ret), 0, <<r1>>)
    ELSE IF ReadFails(r2) THEN GetResult(ReadFailure(r2.ret), 0, <<r1, r2>>)
    ELSE LET intval == ReadValue(r1, b.v_now) * 2000
             val2 == CDiv(ReadValue(r2, b.c_now) * 1000, 15)
         IN  GetResult(0, intval + val2, <<r1, r2>>)

\* case POWER_SUPPLY_PROP_VOLTAGE_NOW
GetVoltageNow(b, r1, r2) ==
    IF ReadFails(r1) THEN GetResult(ReadFailure(r1.ret), 0, <<r1>>)
    ELSE IF ReadFails(r2) THEN GetResult(ReadFailure(r2.ret), 0, <<r1, r2>>)
    ELSE LET intval == ReadValue(r1, b.v_now) * 2000 + 200000
             val2 == CDiv(ReadValue(r2, b.c_now) * 1000, 15)
         IN  GetResult(0, intval + val2, <<r1, r2>>)

\* variant: the division by 15 before the multiplication
GetCurrentNow_DivideFirst(b, r1) ==
    IF ReadFails(r1) THEN GetResult(ReadFailure(r1.ret), 0, <<r1>>)
    ELSE GetResult(0, CDiv(ReadValue(r1, b.c_now), 15) * 20000, <<r1>>)

\* case POWER_SUPPLY_PROP_CURRENT_NOW
GetCurrentNow(b, r1) ==
    IF ReadFails(r1) THEN GetResult(ReadFailure(r1.ret), 0, <<r1>>)
    ELSE GetResult(0, CDiv(ReadValue(r1, b.c_now) * 20000, 15), <<r1>>)

\* variant: VOLTAGE_MAX_DESIGN answered from v_min
lego_ev3_battery_get_property_MinForMax(b, psp, r1, r2) ==
    CASE psp = POWER_SUPPLY_PROP_TECHNOLOGY -> GetResult(0, b.technology, <<>>)
      [] psp = POWER_SUPPLY_PROP_VOLTAGE_NOW -> GetVoltageNow(b, r1, r2)
      [] psp = POWER_SUPPLY_PROP_VOLTAGE_MAX_DESIGN -> GetResult(0, b.v_min, <<>>)
      [] psp = POWER_SUPPLY_PROP_VOLTAGE_MIN_DESIGN -> GetResult(0, b.v_min, <<>>)
      [] psp = POWER_SUPPLY_PROP_CURRENT_NOW -> GetCurrentNow(b, r1)
      [] psp = POWER_SUPPLY_PROP_SCOPE -> GetResult(0, POWER_SUPPLY_SCOPE_SYSTEM, <<>>)
      [] OTHER -> GetResult(-EINVAL, 0, <<>>)

lego_ev3_battery_get_property(b, psp, r1, r2) ==
    CASE psp = POWER_SUPPLY_PROP_TECHNOLOGY -> GetResult(0, b.technology, <<>>)
      [] psp = POWER_SUPPLY_PROP_VOLTAGE_NOW -> GetVoltageNow(b, r1, r2)
      [] psp = POWER_SUPPLY_PROP_VOLTAGE_MAX_DESIGN -> GetResult(0, b.v_max, <<>>)
      [] psp = POWER_SUPPLY_PROP_VOLTAGE_MIN_DESIGN -> GetResult(0, b.v_min, <<>>)
      [] psp = POWER_SUPPLY_PROP_CURRENT_NOW -> GetCurrentNow(b, r1)
      [] psp = POWER_SUPPLY_PROP_SCOPE -> GetResult(0, POWER_SUPPLY_SCOPE_SYSTEM, <<>>)
      [] OTHER -> GetResult(-EINVAL, 0, <<>>)

----------------------------------------------------------------------------
(* lego_ev3_battery_set_property: the return code and the struct after it *)

\* variant: the two bounds exchanged
SetNiMH_BoundsSwapped(b) ==
    [b EXCEPT !.technology = POWER_SUPPLY_TECHNOLOGY_NiMH,
              !.v_max = 5400000,
              !.v_min = 7800000]

\* case POWER_SUPPLY_TECHNOLOGY_NiMH of the inner switch
SetNiMH(b) ==
    [b EXCEPT !.technology = POWER_SUPPLY_TECHNOLOGY_NiMH,
              !.v_max = 7800000,
              !.v_min = 5400000]

\* variant: only a technology already NiMH is protected
TechnologyLocked_OnlyNiMH(b) == b.technology = POWER_SUPPLY_TECHNOLOGY_NiMH

\* the guard of case POWER_SUPPLY_PROP_TECHNOLOGY
TechnologyLocked(b) == b.technology # POWER_SUPPLY_TECHNOLOGY_UNKNOWN

\* variant: the inner switch's default breaks instead of returning -EINVAL
lego_ev3_battery_set_property_DefaultBreak(b, psp, v) ==
    IF psp = POWER_SUPPLY_PROP_TECHNOLOGY
    THEN IF TechnologyLocked(b) THEN [ret |-> -EINVAL, batt |-> b]
         ELSE IF v = POWER_SUPPLY_TECHNOLOGY_NiMH THEN [ret |-> 0, batt |-> SetNiMH(b)]
         ELSE [ret |-> 0, batt |-> b]
    ELSE [ret |-> -EINVAL, batt |-> b]

\* variant: technology assigned from the argument before it is validated
lego_ev3_battery_set_property_AssignFirst(b, psp, v) ==
    IF psp = POWER_SUPPLY_PROP_TECHNOLOGY
    THEN IF TechnologyLocked(b) THEN [ret |-> -EINVAL, batt |-> b]
         ELSE IF v = POWER_SUPPLY_TECHNOLOGY_NiMH THEN [ret |-> 0, batt |-> SetNiMH(b)]
         ELSE [ret |-> -EINVAL, batt |-> [b EXCEPT !.technology = v]]
    ELSE [ret |-> -EINVAL, batt |-> b]

lego_ev3_battery_set_property(b, psp, v) ==
    IF psp = POWER_SUPPLY_PROP_TECHNOLOGY
    THEN IF TechnologyLocked(b) THEN [ret |-> -EINVAL, batt |-> b]
         ELSE IF v = POWER_SUPPLY_TECHNOLOGY_NiMH THEN [ret |-> 0, batt |-> SetNiMH(b)]
         ELSE [ret |-> -EINVAL, batt |-> b]
    ELSE [ret |-> -EINVAL, batt |-> b]

----------------------------------------------------------------------------
(* lego_ev3_battery_property_is_writeable: 1 or 0, as a C truth value *)

\* variant: the technology not looked at
lego_ev3_battery_property_is_writeable_AnyTechnology(b, psp) ==
    IF psp = POWER_SUPPLY_PROP_TECHNOLOGY THEN 1 ELSE 0

lego_ev3_battery_property_is_writeable(b, psp) ==
    IF psp = POWER_SUPPLY_PROP_TECHNOLOGY
       /\ b.technology = POWER_SUPPLY_TECHNOLOGY_UNKNOWN
    THEN 1 ELSE 0

----------------------------------------------------------------------------
(* lego_ev3_battery_iio_cb: raw is the buffer, raw[1] the current word and *)
(* raw[2] the voltage word (raw[0] and raw[1] of the C array)              *)

\* variant: the word not masked to its low 12 bits
Scale_NoMask(w) == Shr12(w * 5002)

\* ((w & 0xFFF) * 5002) >> 12
Scale(w) == Shr12(Mask12(w) * 5002)

\* variant: only the current stored
lego_ev3_battery_iio_cb_CurrentOnly(b, raw) ==
    [b EXCEPT !.c_now = Scale(raw[1])]

lego_ev3_battery_iio_cb(b, raw) ==
    [b EXCEPT !.c_now = Scale(raw[1]), !.v_now = Scale(raw[2])]

----------------------------------------------------------------------------
(* The strap branch of lego_ev3_battery_probe *)

\* variant: the test of the gpio value inverted
StrapBatt_Inverted(b, value) ==
    IF value = 0
    THEN [b EXCEPT !.technology = POWER_SUPPLY_TECHNOLOGY_LION,
                   !.v_max = 84000000,
                   !.v_min = 60000000]
    ELSE [b EXCEPT !.technology = POWER_SUPPLY_TECHNOLOGY_UNKNOWN,
                   !.v_max = 90000000,
                   !.v_min = 48000000]

\* variant: the deasserted branch given the NiMH bounds
StrapBatt_DeassertedNiMHBounds(b, value) ==
    IF value # 0
    THEN [b EXCEPT !.technology = POWER_SUPPLY_TECHNOLOGY_LION,
                   !.v_max = 84000000,
                   !.v_min = 60000000]
    ELSE [b EXCEPT !.technology = POWER_SUPPLY_TECHNOLOGY_UNKNOWN,
                   !.v_max = 7800000,
                   !.v_min = 5400000]

StrapBatt(b, value) ==
    IF value # 0
    THEN [b EXCEPT !.technology = POWER_SUPPLY_TECHNOLOGY_LION,
                   !.v_max = 84000000,
                   !.v_min = 60000000]
    ELSE [b EXCEPT !.technology = POWER_SUPPLY_TECHNOLOGY_UNKNOWN,
                   !.v_max = 90000000,
                   !.v_min = 48000000]

----------------------------------------------------------------------------
(* The record of the most recent call *)

Last(op, psp, arg, ret, val, reads, pre) ==
    [op |-> op, psp |-> psp, arg |-> arg, ret |-> ret, val |-> val,
     reads |-> reads, pre |-> pre]

NoCall == Last("none", "", 0, 0, 0, <<>>, ZeroBatt)

\* The contexts of SpecConc.  seq counts the callbacks begun; c_tag and v_tag
\* are the numbers of the callbacks that stored the present c_now and v_now
\* (0: the zeroed struct); pending is the buffer of a callback that has
\* stored c_now and not yet v_now.  rd_pc is "read_i" while a get of
\* VOLTAGE_NOW is between its two reads, rd_r1 the answer of its first read,
\* rd_intval its val->intval, rd_vtag the tag of the v_now it used (-1: it
\* used a live reading); used holds the tags of the v_now and the c_now the
\* most recent finished get used.
ConcIdle ==
    [seq |-> 0, c_tag |-> 0, v_tag |-> 0, pending |-> <<>>,
     rd_pc |-> "idle", rd_r1 |-> NoRead, rd_intval |-> 0, rd_vtag |-> -1,
     used |-> <<-1, -1>>]

\* no get and no callback is in progress
Quiescent == conc.pending = <<>> /\ conc.rd_pc = "idle"

TypeOK ==
    /\ pc \in { "unbound", "get_iio_v", "get_iio_i", "get_all_cb", "get_gpio",
                "read_strap", "register", "start_cb", "bound", "unwind" }
    /\ nProbes \in 0..(MaxProbes + 1)
    /\ probe_ret \in Int
    /\ devres \in Seq({ "batt", "iio_v", "iio_i", "release_all_cb", "gpio", "psy",
                        "stop_all_cb" })
    /\ batt.technology \in Int /\ batt.v_max \in Int /\ batt.v_min \in Int
    /\ batt.v_now \in Nat /\ batt.c_now \in Nat
    /\ psy \in BOOLEAN
    /\ iio_cb \in { "none", "held", "running" }
    /\ strap \in { -1, 0, 1 }
    /\ setOk \in Nat
    /\ sample \in Seq(SampleWords)
    /\ last.op \in { "none", "get", "set", "is_writeable", "iio_cb" }
    /\ conc.seq \in 0..(MaxSamples + 1)
    /\ conc.rd_pc \in { "idle", "read_i" }

Init ==
    /\ pc = "unbound"
    /\ nProbes = 0
    /\ probe_ret = 0
    /\ devres = <<>>
    /\ batt = ZeroBatt
    /\ psy = FALSE
    /\ iio_cb = "none"
    /\ strap = -1
    /\ setOk = 0
    /\ sample = <<>>
    /\ last = NoCall
    /\ conc = ConcIdle

----------------------------------------------------------------------------
(* lego_ev3_battery_probe, one step per dependency it acquires.  A failed  *)
(* step returns its error and the driver core releases the managed         *)
(* resources (pc = "unwind").                                              *)

\* return err
ProbeFail(err) ==
    /\ probe_ret' = err
    /\ pc' = "unwind"

\* batt = devm_kzalloc(...); if (!batt) return -ENOMEM
ProbeAlloc(ok) ==
    /\ pc = "unbound"
    /\ nProbes < MaxProbes
    /\ iio_cb = "none"     \* a device whose buffer leaked is not followed further
    /\ nProbes' = nProbes + 1
    /\ IF ok
       THEN /\ batt' = ZeroBatt
            /\ devres' = <<"batt">>
            /\ pc' = "get_iio_v"
            /\ probe_ret' = 0
       ELSE /\ probe_ret' = -ENOMEM
            /\ UNCHANGED <<batt, devres, pc>>
    /\ strap' = -1
    /\ setOk' = 0
    /\ sample' = <<>>
    /\ last' = NoCall
    /\ UNCHANGED <<conc, psy, iio_cb>>

\* batt->iio_v = devm_iio_channel_get(dev, "voltage")
ProbeGetIioV(err) ==
    /\ pc = "get_iio_v"
    /\ IF err = 0
       THEN /\ devres' = Append(devres, "iio_v")
            /\ pc' = "get_iio_i"
            /\ UNCHANGED probe_ret
       ELSE ProbeFail(err) /\ UNCHANGED devres
    /\ last' = NoCall
    /\ UNCHANGED <<conc, nProbes, batt, psy, iio_cb, strap, setOk, sample>>

\* batt->iio_i = devm_iio_channel_get(dev, "current")
ProbeGetIioI(err) ==
    /\ pc = "get_iio_i"
    /\ IF err = 0
       THEN /\ devres' = Append(devres, "iio_i")
            /\ pc' = "get_all_cb"
            /\ UNCHANGED probe_ret
       ELSE ProbeFail(err) /\ UNCHANGED devres
    /\ last' = NoCall
    /\ UNCHANGED <<conc, nProbes, batt, psy, iio_cb, strap, setOk, sample>>

\* batt->iio_cb = iio_channel_get_all_cb(...);
\* devm_add_action(dev, lego_ev3_battery_release_all_cb, batt->iio_cb)
\* added: devm_add_action recorded the action; its return value is not
\* looked at, so probe goes on the same way when it did not
ProbeGetAllCb(err, added) ==
    /\ pc = "get_all_cb"
    /\ IF err = 0
       THEN /\ iio_cb' = "held"
            /\ devres' = IF added THEN Append(devres, "release_all_cb") ELSE devres
            /\ pc' = "get_gpio"
            /\ UNCHANGED probe_ret
       ELSE ProbeFail(err) /\ UNCHANGED <<devres, iio_cb>>
    /\ last' = NoCall
    /\ UNCHANGED <<conc, nProbes, batt, psy, strap, setOk, sample>>

\* batt->rechargeable_gpio = devm_gpiod_get(dev, "rechargeable", GPIOD_IN)
ProbeGetGpio(err) ==
    /\ pc = "get_gpio"
    /\ IF err = 0
       THEN /\ devres' = Append(devres, "gpio")
            /\ pc' = "read_strap"
            /\ UNCHANGED probe_ret
       ELSE ProbeFail(err) /\ UNCHANGED devres
    /\ last' = NoCall
    /\ UNCHANGED <<conc, nProbes, batt, psy, iio_cb, strap, setOk, sample>>

\* if (gpiod_get_value(batt->rechargeable_gpio)) { ... } else { ... }
ProbeReadStrap(value) ==
    /\ pc = "read_strap"
    /\ strap' = value
    /\ batt' = StrapBatt(batt, value)
    /\ pc' = "register"
    /\ last' = NoCall
    /\ UNCHANGED <<conc, nProbes, probe_ret, devres, psy, iio_cb, setOk, sample>>

\* batt->psy = devm_power_supply_register(...)
ProbeRegister(err) ==
    /\ pc = "register"
    /\ IF err = 0
       THEN /\ psy' = TRUE
            /\ devres' = Append(devres, "psy")
            /\ pc' = "start_cb"
            /\ UNCHANGED probe_ret
       ELSE ProbeFail(err) /\ UNCHANGED <<devres, psy>>
    /\ last' = NoCall
    /\ UNCHANGED <<conc, nProbes, batt, iio_cb, strap, setOk, sample>>

\* err = iio_channel_start_all_cb(batt->iio_cb);
\* devm_add_action(dev, lego_ev3_battery_stop_all_cb, batt->iio_cb); return 0
\* added: as in ProbeGetAllCb
ProbeStartCb(err, added) ==
    /\ pc = "start_cb"
    /\ IF err = 0
       THEN /\ iio_cb' = "running"
            /\ devres' = IF added THEN Append(devres, "stop_all_cb") ELSE devres
            /\ probe_ret' = 0
            /\ pc' = "bound"
       ELSE ProbeFail(err) /\ UNCHANGED <<devres, iio_cb>>
    /\ last' = NoCall
    /\ UNCHANGED <<conc, nProbes, batt, psy, strap, setOk, sample>>

----------------------------------------------------------------------------
(* Teardown: the device is unbound and its managed resources are released *)
(* newest first                                                            *)

Remove ==
    /\ pc = "bound"
    /\ pc' = "unwind"
    /\ last' = NoCall
    /\ UNCHANGED <<conc, nProbes, probe_ret, devres, batt, psy, iio_cb, strap, setOk, sample>>

\* variant: the managed resources released oldest first
DevresRelease_OldestFirst ==
    /\ pc = "unwind"
    /\ devres # <<>>
    /\ LET res == devres[1]
       IN  /\ devres' = SubSeq(devres, 2, Len(devres))
           /\ iio_cb' = CASE res = "stop_all_cb" -> "held"
                          [] res = "release_all_cb" /\ iio_cb = "held" -> "none"
                          [] OTHER -> iio_cb
           /\ psy' = IF res = "psy" THEN FALSE ELSE psy
           /\ batt' = IF res = "batt" THEN ZeroBatt ELSE batt
           /\ pc' = IF Len(devres) = 1 THEN "unbound" ELSE pc
    /\ last' = NoCall
    /\ UNCHANGED <<conc, nProbes, probe_ret, strap, setOk, sample>>

\* one release: lego_ev3_battery_stop_all_cb, the power supply's unregister,
\* lego_ev3_battery_release_all_cb, ...; the last one frees batt.  A buffer
\* that was never stopped stays active in the iio device when its reference
\* is dropped by lego_ev3_battery_release_all_cb.
DevresRelease ==
    /\ pc = "unwind"
    /\ devres # <<>>
    /\ LET res == devres[Len(devres)]
       IN  /\ devres' = SubSeq(devres, 1, Len(devres) - 1)
           /\ iio_cb' = CASE res = "stop_all_cb" -> "held"
                          [] res = "release_all_cb" /\ iio_cb = "held" -> "none"
                          [] OTHER -> iio_cb
           /\ psy' = IF res = "psy" THEN FALSE ELSE psy
           /\ batt' = IF res = "batt" THEN ZeroBatt ELSE batt
           /\ pc' = IF Len(devres) = 1 THEN "unbound" ELSE pc
    /\ last' = NoCall
    /\ UNCHANGED <<conc, nProbes, probe_ret, strap, setOk, sample>>

----------------------------------------------------------------------------
(* Calls of the power supply class, possible while the supply is          *)
(* registered, and the iio callback, delivered while the buffer runs      *)

Get(psp, r1, r2) ==
    /\ psy
    /\ LET res == lego_ev3_battery_get_property(batt, psp, r1, r2)
       IN  last' = Last("get", psp, 0, res.ret, res.val, res.reads, batt)
    /\ UNCHANGED <<conc, pc, nProbes, probe_ret, devres, batt, psy, iio_cb, strap, setOk, sample>>

Set(psp, v) ==
    /\ psy
    /\ LET res == lego_ev3_battery_set_property(batt, psp, v)
       IN  /\ batt' = res.batt
           /\ setOk' = IF res.ret = 0 THEN setOk + 1 ELSE setOk
           /\ last' = Last("set", psp, v, res.ret, 0, <<>>, batt)
    /\ UNCHANGED <<conc, pc, nProbes, probe_ret, devres, psy, iio_cb, strap, sample>>

IsWriteable(psp) ==
    /\ psy
    /\ last' = Last("is_writeable", psp, 0,
                    lego_ev3_battery_property_is_writeable(batt, psp), 0, <<>>, batt)
    /\ UNCHANGED <<conc, pc, nProbes, probe_ret, devres, batt, psy, iio_cb, strap, setOk, sample>>

IioCb(raw) ==
    /\ iio_cb = "running"
    /\ batt' = lego_ev3_battery_iio_cb(batt, raw)
    /\ sample' = raw
    /\ last' = Last("iio_cb", "", 0, 0, 0, <<>>, batt)
    /\ UNCHANGED <<conc, pc, nProbes, probe_ret, devres, psy, iio_cb, strap, setOk>>

----------------------------------------------------------------------------

Next ==
    \/ \E ok \in BOOLEAN : ProbeAlloc(ok)
    \/ \E err \in {0} \cup ProbeErrs : ProbeGetIioV(err)
    \/ \E err \in {0} \cup ProbeErrs : ProbeGetIioI(err)
    \/ \E err \in {0} \cup ProbeErrs : ProbeGetAllCb(err, TRUE)
    \/ \E err \in {0} \cup ProbeErrs : ProbeGetGpio(err)
    \/ \E value \in {0, 1} : ProbeReadStrap(value)
    \/ \E err \in {0} \cup ProbeErrs : ProbeRegister(err)
    \/ \E err \in {0} \cup ProbeErrs : ProbeStartCb(err, TRUE)
    \/ Remove
    \/ DevresRelease
    \/ \E psp \in Props \ LiveProps : Get(psp, NoRead, NoRead)
    \/ \E r1 \in ReadOutcomes : Get(POWER_SUPPLY_PROP_CURRENT_NOW, r1, NoRead)
    \/ \E r1 \in ReadOutcomes, r2 \in ReadOutcomes : Get(POWER_SUPPLY_PROP_VOLTAGE_NOW, r1, r2)
    \/ \E psp \in Props, v \in SetVals : Set(psp, v)
    \/ \E psp \in Props : IsWriteable(psp)
    \/ \E raw \in SampleWords \X SampleWords : IioCb(raw)

Spec == Init /\ [][Next]_vars

----------------------------------------------------------------------------
(* SpecConc: get_property(VOLTAGE_NOW) and the callback run on their own   *)
(* contexts with no lock between them, so each access to a field of batt   *)
(* is a step of its own.  Probe and teardown steps are taken while neither *)
(* is in progress.                                                         *)

\* what a read answers in SpecConc: busy, a live reading, a failure
ConcReads ==
    { [ret |-> -EBUSY, val |-> 0], [ret |-> IIO_VAL_INT, val |-> 16],
      [ret |-> -ENODEV, val |-> 0] }

\* the buffers the callback is given in SpecConc
ConcSamples == { <<15, 4095>>, <<4095, 15>>, <<61455, 0>> }

\* lines 53-61: the voltage read, v_now taken on -EBUSY
GetVoltageReadV(r1) ==
    /\ psy
    /\ conc.rd_pc = "idle"
    /\ IF ReadFails(r1)
       THEN /\ last' = Last("get", POWER_SUPPLY_PROP_VOLTAGE_NOW, 0,
                            ReadFailure(r1.ret), 0, <<r1>>, batt)
            /\ UNCHANGED conc
       ELSE /\ conc' = [conc EXCEPT
                          !.rd_pc = "read_i",
                          !.rd_r1 = r1,
                          !.rd_intval = ReadValue(r1, batt.v_now) * 2000 + 200000,
                          !.rd_vtag = IF r1.ret = -EBUSY THEN conc.v_tag ELSE -1]
            /\ last' = NoCall
    /\ UNCHANGED <<pc, nProbes, probe_ret, devres, batt, psy, iio_cb, strap, setOk, sample>>

\* lines 63-73: the current read, c_now taken on -EBUSY, and the return
GetVoltageReadI(r2) ==
    /\ conc.rd_pc = "read_i"
    /\ IF ReadFails(r2)
       THEN /\ last' = Last("get", POWER_SUPPLY_PROP_VOLTAGE_NOW, 0,
                            ReadFailure(r2.ret), 0, <<conc.rd_r1, r2>>, batt)
            /\ conc' = [conc EXCEPT !.rd_pc = "idle"]
       ELSE /\ last' = Last("get", POWER_SUPPLY_PROP_VOLTAGE_NOW, 0, 0,
                            conc.rd_intval + CDiv(ReadValue(r2, batt.c_now) * 1000, 15),
                            <<conc.rd_r1, r2>>, batt)
            /\ conc' = [conc EXCEPT
                          !.rd_pc = "idle",
                          !.used = <<conc.rd_vtag,
                                     IF r2.ret = -EBUSY THEN conc.c_tag ELSE -1>>]
    /\ UNCHANGED <<pc, nProbes, probe_ret, devres, batt, psy, iio_cb, strap, setOk, sample>>

\* line 176: batt->c_now = ((raw[0] & 0xFFF) * 5002) >> 12
CbStoreCurrent(raw) ==
    /\ iio_cb = "running"
    /\ conc.pending = <<>>
    /\ conc.seq < MaxSamples
    /\ batt' = [batt EXCEPT !.c_now = Scale(raw[1])]
    /\ conc' = [conc EXCEPT !.seq = conc.seq + 1, !.c_tag = conc.seq + 1, !.pending = raw]
    /\ UNCHANGED <<pc, nProbes, probe_ret, devres, psy, iio_cb, strap, setOk, sample, last>>

\* line 177: batt->v_now = ((raw[1] & 0xFFF) * 5002) >> 12; return 0
CbStoreVoltage ==
    /\ conc.pending # <<>>
    /\ batt' = [batt EXCEPT !.v_now = Scale(conc.pending[2])]
    /\ sample' = conc.pending
    /\ conc' = [conc EXCEPT !.v_tag = conc.c_tag, !.pending = <<>>]
    /\ UNCHANGED <<pc, nProbes, probe_ret, devres, psy, iio_cb, strap, setOk, last>>

NextConc ==
    \/ \E ok \in BOOLEAN : Quiescent /\ ProbeAlloc(ok)
    \/ \E err \in {0} \cup ProbeErrs : Quiescent /\ ProbeGetIioV(err)
    \/ \E err \in {0} \cup ProbeErrs : Quiescent /\ ProbeGetIioI(err)
    \/ \E err \in {0} \cup ProbeErrs : Quiescent /\ ProbeGetAllCb(err, TRUE)
    \/ \E err \in {0} \cup ProbeErrs : Quiescent /\ ProbeGetGpio(err)
    \/ \E value \in {0, 1} : Quiescent /\ ProbeReadStrap(value)
    \/ \E err \in {0} \cup ProbeErrs : Quiescent /\ ProbeRegister(err)
    \/ \E err \in {0} \cup ProbeErrs : Quiescent /\ ProbeStartCb(err, TRUE)
    \/ Quiescent /\ Remove
    \/ Quiescent /\ DevresRelease
    \/ \E r1 \in ConcReads : GetVoltageReadV(r1)
    \/ \E r2 \in ConcReads : GetVoltageReadI(r2)
    \/ \E raw \in ConcSamples : CbStoreCurrent(raw)
    \/ CbStoreVoltage

SpecConc == Init /\ [][NextConc]_vars

----------------------------------------------------------------------------
(* SpecLifecycle: probe and teardown with a devm_add_action that may fail  *)
(* to record its action, and the callbacks of the running buffer           *)

NextLifecycle ==
    \/ \E ok \in BOOLEAN : ProbeAlloc(ok)
    \/ \E err \in {0} \cup ProbeErrs : ProbeGetIioV(err)
    \/ \E err \in {0} \cup ProbeErrs : ProbeGetIioI(err)
    \/ \E err \in {0} \cup ProbeErrs, added \in BOOLEAN : ProbeGetAllCb(err, added)
    \/ \E err \in {0} \cup ProbeErrs : ProbeGetGpio(err)
    \/ \E value \in {0, 1} : ProbeReadStrap(value)
    \/ \E err \in {0} \cup ProbeErrs : ProbeRegister(err)
    \/ \E err \in {0} \cup ProbeErrs, added \in BOOLEAN : ProbeStartCb(err, added)
    \/ Remove
    \/ DevresRelease
    \/ \E raw \in ConcSamples : IioCb(raw)

SpecLifecycle == Init /\ [][NextLifecycle]_vars

----------------------------------------------------------------------------
(* Properties *)

\* the fields the technology write decides
Chemistry(b) == <<b.technology, b.v_max, b.v_min>>

\* the call before this state was a set_property that returned ret
SetReturned(ret) == last.op = "set" /\ last.ret = ret

\* setOk before the most recent call
SetOkBefore == IF SetReturned(0) THEN setOk - 1 ELSE setOk

\* C1: write-once technology.  While the supply is registered, once
\* technology is NiMH or Li-ion no step (get, set, is_writeable, callback,
\* probe or teardown step) changes technology, v_max or v_min, so technology
\* never becomes Unknown again; and at most one set_property call returns 0
\* on one attached device.
C1_WriteOnce ==
    /\ [][ (psy /\ psy' /\ batt.technology # POWER_SUPPLY_TECHNOLOGY_UNKNOWN)
            => Chemistry(batt') = Chemistry(batt) ]_vars
    /\ [](setOk <= 1)

\* C1 witness: a set attempted after the one successful set, technology NiMH
C1_Witness ==
    /\ psy
    /\ setOk = 1
    /\ SetReturned(-EINVAL)
    /\ last.psp = POWER_SUPPLY_PROP_TECHNOLOGY
    /\ last.pre.technology = POWER_SUPPLY_TECHNOLOGY_NiMH
    /\ batt.technology = POWER_SUPPLY_TECHNOLOGY_NiMH

\* C2: set(Technology, NiMH) while technology is Unknown returns 0 and leaves
\* technology = NiMH, v_max = 7800000, v_min = 5400000 (the readings
\* untouched); every set(Technology, v) after a successful set returns
\* -EINVAL, whatever v is.
C2_SetNiMH ==
    (last.op = "set" /\ last.psp = POWER_SUPPLY_PROP_TECHNOLOGY) =>
        /\ (last.arg = POWER_SUPPLY_TECHNOLOGY_NiMH
            /\ last.pre.technology = POWER_SUPPLY_TECHNOLOGY_UNKNOWN)
           => /\ last.ret = 0
              /\ batt = [last.pre EXCEPT !.technology = POWER_SUPPLY_TECHNOLOGY_NiMH,
                                         !.v_max = 7800000,
                                         !.v_min = 5400000]
        /\ SetOkBefore >= 1 => last.ret = -EINVAL

\* C2 witness: a second set(Technology, NiMH), refused after the first succeeded
C2_Witness ==
    /\ SetReturned(-EINVAL)
    /\ last.psp = POWER_SUPPLY_PROP_TECHNOLOGY
    /\ last.arg = POWER_SUPPLY_TECHNOLOGY_NiMH
    /\ SetOkBefore = 1
    /\ Chemistry(batt) = <<POWER_SUPPLY_TECHNOLOGY_NiMH, 7800000, 5400000>>

\* a set_property call that the driver must refuse
InvalidSet ==
    /\ last.op = "set"
    /\ \/ last.psp # POWER_SUPPLY_PROP_TECHNOLOGY
       \/ last.arg # POWER_SUPPLY_TECHNOLOGY_NiMH
       \/ last.pre.technology # POWER_SUPPLY_TECHNOLOGY_UNKNOWN

\* a get_property call with a property id the driver does not have
InvalidGet == last.op = "get" /\ last.psp \notin lego_ev3_battery_props

\* C3: every invalid access (set of a property other than Technology, set of
\* Technology to a value other than NiMH, set of Technology when it is not
\* Unknown, get of an unsupported property) returns -EINVAL and leaves all
\* five fields of batt as they were.
C3_InvalidRejected ==
    (InvalidSet \/ InvalidGet) => (last.ret = -EINVAL /\ batt = last.pre)

\* C3 witness: set(Technology, Li-ion) refused while technology is Unknown,
\* with readings stored
C3_Witness ==
    /\ InvalidSet
    /\ last.psp = POWER_SUPPLY_PROP_TECHNOLOGY
    /\ last.arg = POWER_SUPPLY_TECHNOLOGY_LION
    /\ last.pre.technology = POWER_SUPPLY_TECHNOLOGY_UNKNOWN
    /\ last.pre.c_now > 0
    /\ last.ret = -EINVAL

\* C4: while the supply is registered, is_writeable(p) is true exactly when
\* p is Technology and technology is Unknown (in the state, and in every
\* result a caller got), and is_writeable(Technology) is true iff
\* set(Technology, NiMH) in that state would return 0.
C4_IsWriteable ==
    /\ psy =>
        /\ \A p \in Props :
              (lego_ev3_battery_property_is_writeable(batt, p) # 0)
              <=> (p = POWER_SUPPLY_PROP_TECHNOLOGY
                   /\ batt.technology = POWER_SUPPLY_TECHNOLOGY_UNKNOWN)
        /\ (lego_ev3_battery_property_is_writeable(batt, POWER_SUPPLY_PROP_TECHNOLOGY) # 0)
           <=> (lego_ev3_battery_set_property(batt, POWER_SUPPLY_PROP_TECHNOLOGY,
                                              POWER_SUPPLY_TECHNOLOGY_NiMH).ret = 0)
    /\ last.op = "is_writeable" =>
        ((last.ret # 0) <=> (last.psp = POWER_SUPPLY_PROP_TECHNOLOGY
                             /\ last.pre.technology = POWER_SUPPLY_TECHNOLOGY_UNKNOWN))

\* C4 witness: is_writeable(Technology) answered true
C4_Witness ==
    /\ psy
    /\ last.op = "is_writeable"
    /\ last.psp = POWER_SUPPLY_PROP_TECHNOLOGY
    /\ last.ret = 1
    /\ batt.technology = POWER_SUPPLY_TECHNOLOGY_UNKNOWN

\* C5: strap asserted at probe.  While the supply is registered the state is
\* technology = Li-ion, v_max = 84000000, v_min = 60000000; Technology is
\* not writeable and every set(Technology, v) fails, in the state and in
\* every result a caller got.
C5_StrapAsserted ==
    (psy /\ strap = 1) =>
        /\ Chemistry(batt) = <<POWER_SUPPLY_TECHNOLOGY_LION, 84000000, 60000000>>
        /\ lego_ev3_battery_property_is_writeable(batt, POWER_SUPPLY_PROP_TECHNOLOGY) = 0
        /\ \A v \in SetVals :
              lego_ev3_battery_set_property(batt, POWER_SUPPLY_PROP_TECHNOLOGY, v).ret = -EINVAL
        /\ last.op = "set" => last.ret = -EINVAL
        /\ last.op = "is_writeable" => last.ret = 0
        /\ setOk = 0

\* C5 witness: set(Technology, NiMH) refused on a Li-ion device after samples
C5_Witness ==
    /\ psy
    /\ strap = 1
    /\ sample # <<>>
    /\ SetReturned(-EINVAL)
    /\ last.psp = POWER_SUPPLY_PROP_TECHNOLOGY
    /\ last.arg = POWER_SUPPLY_TECHNOLOGY_NiMH

\* C6: strap deasserted at probe.  While the supply is registered and no set
\* has succeeded, the state is technology = Unknown, v_max = 90000000,
\* v_min = 48000000 and Technology is writeable, whatever gets, callbacks
\* and failed sets happened; after the first successful set it is not
\* writeable.
C6_StrapDeasserted ==
    (psy /\ strap = 0) =>
        IF setOk = 0
        THEN /\ Chemistry(batt) = <<POWER_SUPPLY_TECHNOLOGY_UNKNOWN, 90000000, 48000000>>
             /\ lego_ev3_battery_property_is_writeable(batt, POWER_SUPPLY_PROP_TECHNOLOGY) = 1
             /\ (last.op = "is_writeable" /\ last.psp = POWER_SUPPLY_PROP_TECHNOLOGY)
                => last.ret = 1
        ELSE /\ batt.technology = POWER_SUPPLY_TECHNOLOGY_NiMH
             /\ lego_ev3_battery_property_is_writeable(batt, POWER_SUPPLY_PROP_TECHNOLOGY) = 0
             /\ (last.op = "is_writeable" /\ SetOkBefore >= 1) => last.ret = 0

\* C6 witness: still Unknown and writeable after a callback and a failed set
C6_Witness ==
    /\ psy
    /\ strap = 0
    /\ setOk = 0
    /\ sample # <<>>
    /\ SetReturned(-EINVAL)
    /\ last.psp = POWER_SUPPLY_PROP_TECHNOLOGY
    /\ lego_ev3_battery_property_is_writeable(batt, POWER_SUPPLY_PROP_TECHNOLOGY) = 1

\* C7: the design bounds assigned at probe are the voltages in microvolts:
\* strap asserted gives v_max = 8400000 (8.4 V) and v_min = 6000000 (6.0 V),
\* strap deasserted gives v_max = 9000000 (9.0 V) and v_min = 4800000 (4.8 V).
C7_BoundsInMicrovolts ==
    (psy /\ setOk = 0) =>
        /\ strap = 1 => (batt.v_max = 8400000 /\ batt.v_min = 6000000)
        /\ strap = 0 => (batt.v_max = 9000000 /\ batt.v_min = 4800000)

\* the most recent call was a get of VOLTAGE_NOW or CURRENT_NOW
LiveGet == last.op = "get" /\ last.psp \in LiveProps

\* the reads the most recent get made that answered -EBUSY
BusyReads == { i \in 1..Len(last.reads) : last.reads[i].ret = -EBUSY }

\* the reads the most recent get made that failed otherwise
FailedReads == { i \in 1..Len(last.reads) :
                    last.reads[i].ret < 0 /\ last.reads[i].ret # -EBUSY }

\* C8: a get of VOLTAGE_NOW or CURRENT_NOW reads the current channel
\* (CURRENT_NOW) or the voltage channel and then the current channel
\* (VOLTAGE_NOW, the second only if the first did not fail); a read that
\* failed with -ENODEV or -EAGAIN makes the get return that code, a read
\* that failed with any other code but -EBUSY makes it return -ENODATA, and
\* the get returns nothing but 0, -ENODEV, -EAGAIN or -ENODATA.
C8_FailureClasses ==
    LiveGet =>
        /\ last.ret \in { 0, -ENODEV, -EAGAIN, -ENODATA }
        /\ Len(last.reads) >= 1
        /\ Len(last.reads) <= (IF last.psp = POWER_SUPPLY_PROP_VOLTAGE_NOW THEN 2 ELSE 1)
        /\ (last.psp = POWER_SUPPLY_PROP_VOLTAGE_NOW /\ Len(last.reads) = 1)
           => FailedReads = {1}
        /\ \A i \in FailedReads :
              IF last.reads[i].ret \in { -ENODEV, -EAGAIN }
              THEN last.ret = last.reads[i].ret
              ELSE last.ret = -ENODATA
        /\ FailedReads = {} => last.ret = 0

\* C8 witness: VOLTAGE_NOW whose current read failed with -EIO
C8_Witness ==
    /\ LiveGet
    /\ last.psp = POWER_SUPPLY_PROP_VOLTAGE_NOW
    /\ Len(last.reads) = 2
    /\ last.reads[1].ret = IIO_VAL_INT
    /\ last.reads[2].ret = -EIO
    /\ last.ret = -ENODATA

\* the value the most recent get used for its read i: the stored one when
\* the read was busy
UsedValue(i, stored) ==
    IF last.reads[i].ret = -EBUSY THEN stored ELSE last.reads[i].val

\* C9 as stated: a get one of whose reads was busy does not fail
C9_BusyNeverFails ==
    (LiveGet /\ BusyReads # {}) => last.ret = 0

\* C9, amended: a busy read does not fail the get by itself.  A get one of
\* whose reads was busy never returns -EBUSY and leaves batt as it was; it
\* returns 0 unless another read of the same get failed with another code
\* (the current read of VOLTAGE_NOW after a busy voltage read), and the value
\* it returns is computed with the stored v_now / c_now in place of each
\* busy reading.
C9_BusyFallback ==
    (LiveGet /\ BusyReads # {}) =>
        /\ last.ret # -EBUSY
        /\ batt = last.pre
        /\ (last.ret = 0) <=> (FailedReads = {})
        /\ (last.ret = 0 /\ last.psp = POWER_SUPPLY_PROP_CURRENT_NOW)
           => last.val = (UsedValue(1, last.pre.c_now) * 20000) \div 15
        /\ (last.ret = 0 /\ last.psp = POWER_SUPPLY_PROP_VOLTAGE_NOW)
           => last.val = UsedValue(1, last.pre.v_now) * 2000 + 200000
                         + (UsedValue(2, last.pre.c_now) * 1000) \div 15

\* C9 witness: VOLTAGE_NOW with both reads busy, answered from stored readings
C9_Witness ==
    /\ LiveGet
    /\ last.psp = POWER_SUPPLY_PROP_VOLTAGE_NOW
    /\ BusyReads = {1, 2}
    /\ sample # <<>>
    /\ last.pre.v_now > 0
    /\ last.ret = 0

\* a successful get of CURRENT_NOW
CurrentGot == last.op = "get" /\ last.psp = POWER_SUPPLY_PROP_CURRENT_NOW /\ last.ret = 0

\* C10 as stated: the result is reading * 20000 / 15, the reading being the
\* live read or, on busy fallback, the raw current of the last sample
C10_FromRawCurrent ==
    (CurrentGot /\ sample # <<>>) =>
        last.val = (UsedValue(1, Mask12(sample[1])) * 20000) \div 15

\* c_now as the callback left it: the raw current of the last sample scaled
\* by 5002 / 4096, 0 before the first sample
StoredCurrent == IF sample = <<>> THEN 0 ELSE ((sample[1] % 4096) * 5002) \div 4096

\* C10, amended: the result of a successful get of CURRENT_NOW is
\* reading * 20000 / 15, multiplied first and truncated, where the reading
\* is the live read or, on busy fallback, the stored c_now, which is
\* ((raw current & 0xFFF) * 5002) >> 12 of the last sample given to the
\* callback and 0 before the first sample.
C10_CurrentFormula ==
    CurrentGot =>
        /\ last.pre.c_now = StoredCurrent
        /\ last.val = (UsedValue(1, StoredCurrent) * 20000) \div 15

\* C10 witness: busy fallback on a sample whose raw current 15 is stored as 18
C10_Witness ==
    /\ CurrentGot
    /\ BusyReads = {1}
    /\ sample # <<>>
    /\ sample[1] = 15
    /\ last.val = 24000

\* a successful get of VOLTAGE_NOW
VoltageGot == last.op = "get" /\ last.psp = POWER_SUPPLY_PROP_VOLTAGE_NOW /\ last.ret = 0

\* C11 as stated: the result is v * 2000 + 200000 + c * 1000 / 15, each
\* reading being the live read or, on busy fallback, the raw field of the
\* last sample
C11_FromRawSample ==
    (VoltageGot /\ sample # <<>>) =>
        last.val = UsedValue(1, Mask12(sample[2])) * 2000 + 200000
                   + (UsedValue(2, Mask12(sample[1])) * 1000) \div 15

\* v_now as the callback left it: the raw voltage of the last sample scaled
\* by 5002 / 4096, 0 before the first sample
StoredVoltage == IF sample = <<>> THEN 0 ELSE ((sample[2] % 4096) * 5002) \div 4096

\* C11, amended: the result of a successful get of VOLTAGE_NOW is
\* v * 2000 + 200000 + (c * 1000 / 15), truncated, where v and c are the
\* live reads or, on busy fallback, the stored v_now and c_now, which are
\* ((raw & 0xFFF) * 5002) >> 12 of the fields of the last sample given to
\* the callback and 0 before the first sample.
C11_VoltageFormula ==
    VoltageGot =>
        /\ last.pre.v_now = StoredVoltage
        /\ last.pre.c_now = StoredCurrent
        /\ last.val = UsedValue(1, StoredVoltage) * 2000 + 200000
                      + (UsedValue(2, StoredCurrent) * 1000) \div 15

\* C11 witness: both reads busy on a sample (15, 4095), stored as (18, 5000)
C11_Witness ==
    /\ VoltageGot
    /\ BusyReads = {1, 2}
    /\ sample = <<15, 4095>>
    /\ last.val = 10201200

\* the properties get answers from memory
StoredProps ==
    { POWER_SUPPLY_PROP_TECHNOLOGY, POWER_SUPPLY_PROP_VOLTAGE_MAX_DESIGN,
      POWER_SUPPLY_PROP_VOLTAGE_MIN_DESIGN, POWER_SUPPLY_PROP_SCOPE }

\* what get must answer for a property of StoredProps on the struct b
StoredAnswer(b, p) ==
    CASE p = POWER_SUPPLY_PROP_TECHNOLOGY -> b.technology
      [] p = POWER_SUPPLY_PROP_VOLTAGE_MAX_DESIGN -> b.v_max
      [] p = POWER_SUPPLY_PROP_VOLTAGE_MIN_DESIGN -> b.v_min
      [] p = POWER_SUPPLY_PROP_SCOPE -> 1

\* C15: while the supply is registered, get of Technology, VoltageMaxDesign,
\* VoltageMinDesign or Scope returns 0 with the stored technology / bound
\* (Scope: System), whatever the channels would answer to a read, and makes
\* no read; so did every such get a caller made.
C15_StoredGetsNeverFail ==
    /\ psy =>
          \A p \in StoredProps, r1 \in ReadOutcomes, r2 \in ReadOutcomes :
              lego_ev3_battery_get_property(batt, p, r1, r2)
              = [ret |-> 0, val |-> StoredAnswer(batt, p), reads |-> <<>>]
    /\ (last.op = "get" /\ last.psp \in StoredProps) =>
          /\ last.ret = 0
          /\ last.val = StoredAnswer(last.pre, last.psp)
          /\ last.reads = <<>>

\* C15 witness: get(VOLTAGE_MAX_DESIGN) answers the NiMH bound after a set
C15_Witness ==
    /\ last.op = "get"
    /\ last.psp = POWER_SUPPLY_PROP_VOLTAGE_MAX_DESIGN
    /\ last.ret = 0
    /\ last.val = 7800000
    /\ batt.technology = POWER_SUPPLY_TECHNOLOGY_NiMH

\* the stored readings of the struct b
Readings(b) == <<b.v_now, b.c_now>>

\* C16: single writer of the stored readings.  While the supply is
\* registered only a callback step changes v_now or c_now; a callback
\* stores both fields from its sample and leaves technology and the bounds;
\* get, set and is_writeable leave v_now and c_now, and get and
\* is_writeable leave the whole struct.
C16_SingleWriter ==
    /\ [][ (psy /\ psy' /\ Readings(batt') # Readings(batt)) => last'.op = "iio_cb" ]_vars
    /\ [](/\ last.op \in { "get", "set", "is_writeable" }
             => Readings(batt) = Readings(last.pre)
          /\ last.op \in { "get", "is_writeable" } => batt = last.pre
          /\ last.op = "iio_cb"
             => /\ Readings(batt) = <<StoredVoltage, StoredCurrent>>
                /\ Chemistry(batt) = Chemistry(last.pre))

\* C16 witness: a callback replaced both stored readings
C16_Witness ==
    /\ psy
    /\ last.op = "iio_cb"
    /\ last.pre.v_now = 5000
    /\ last.pre.c_now = 5000
    /\ Readings(batt) = <<18, 18>>

\* C17: while the supply is registered, (technology, v_max, v_min) is one of
\* (Li-ion, 84000000, 60000000), (Unknown, 90000000, 48000000) and
\* (NiMH, 7800000, 5400000).
C17_ChemistryTriples ==
    psy => Chemistry(batt) \in
              { <<POWER_SUPPLY_TECHNOLOGY_LION, 84000000, 60000000>>,
                <<POWER_SUPPLY_TECHNOLOGY_UNKNOWN, 90000000, 48000000>>,
                <<POWER_SUPPLY_TECHNOLOGY_NiMH, 7800000, 5400000>> }

\* C17 witness: the NiMH triple, still there after a callback
C17_Witness ==
    /\ psy
    /\ last.op = "iio_cb"
    /\ Chemistry(batt) = <<POWER_SUPPLY_TECHNOLOGY_NiMH, 7800000, 5400000>>

\* the most recent get was answered from stored readings only
FallbackGot == LiveGet /\ last.ret = 0 /\ BusyReads = 1..Len(last.reads)

\* C18: the callback uses only the low 12 bits of each 16-bit word and the
\* stored c_now and v_now lie in 0..5000; a get answered from the stored
\* readings has every intermediate value and its result non-negative and
\* within int: at most 5000 * 20000 / 15 for the current and
\* 5000 * 2000 + 200000 + 5000 * 1000 / 15 for the voltage.
C18_BoundedArithmetic ==
    /\ batt.c_now \in 0..5000
    /\ batt.v_now \in 0..5000
    /\ (psy /\ sample # <<>>) =>
          /\ batt.c_now = ((sample[1] % 4096) * 5002) \div 4096
          /\ batt.v_now = ((sample[2] % 4096) * 5002) \div 4096
    /\ (FallbackGot /\ last.psp = POWER_SUPPLY_PROP_CURRENT_NOW) =>
          /\ last.pre.c_now * 20000 \in 0..2147483647
          /\ last.val \in 0..((5000 * 20000) \div 15)
    /\ (FallbackGot /\ last.psp = POWER_SUPPLY_PROP_VOLTAGE_NOW) =>
          /\ last.pre.v_now * 2000 + 200000 \in 0..2147483647
          /\ last.pre.c_now * 1000 \in 0..2147483647
          /\ last.val \in 0..(5000 * 2000 + 200000 + (5000 * 1000) \div 15)

\* C18 witness: a word with high bits set (0xF00F) stored as 18, and the
\* largest voltage, answered from the stored readings
C18_Witness ==
    /\ FallbackGot
    /\ last.psp = POWER_SUPPLY_PROP_VOLTAGE_NOW
    /\ sample = <<61455, 4095>>
    /\ last.pre.c_now = 18
    /\ last.pre.v_now = 5000

\* C19: a get can run before the first sample (the supply is registered
\* before the buffer is started); then the stored readings are 0, and a get
\* whose reads are all busy returns 0 with CURRENT_NOW = 0 and
\* VOLTAGE_NOW = 200000.
C19_BeforeFirstSample ==
    (LiveGet /\ sample = <<>> /\ BusyReads = 1..Len(last.reads)) =>
        /\ Readings(last.pre) = <<0, 0>>
        /\ last.ret = 0
        /\ last.val = (IF last.psp = POWER_SUPPLY_PROP_CURRENT_NOW THEN 0 ELSE 200000)

\* C19 witness: VOLTAGE_NOW read with both channels busy between the
\* registration and the start of the buffer
C19_Witness ==
    /\ pc = "start_cb"
    /\ iio_cb = "held"
    /\ sample = <<>>
    /\ VoltageGot
    /\ BusyReads = {1, 2}
    /\ last.val = 200000

\* C12: no torn sample.  When get_property(VOLTAGE_NOW) answers from the
\* stored readings (both reads busy) while callbacks run on their own
\* context, the v_now and the c_now it used, each stored by a callback, were
\* stored by one and the same callback.
C12_NoTornSample ==
    (VoltageGot /\ BusyReads = {1, 2} /\ conc.used[1] >= 1 /\ conc.used[2] >= 1)
        => conc.used[1] = conc.used[2]

----------------------------------------------------------------------------
\* the managed resource res is still to be released
Pending(res) == \E i \in 1..Len(devres) : devres[i] = res

\* the device is being detached after a successful probe
Detaching == pc = "unwind" /\ probe_ret = 0

C14_AllOrNothing ==
    (pc = "unbound" /\ probe_ret # 0) => (~psy /\ iio_cb = "none")

=============================================================================
